---- MODULE Spec2Model ----
(***************************************************************************)
(* World Encyclopedia (src/wikibook.py): a Streamlit script.  Every user   *)
(* interaction re-runs the whole script top to bottom; the only state that *)
(* survives a run is the session state (bookmarks), the URL query          *)
(* parameters, the widget values and the st.cache_data memo tables.        *)
(* A run is modelled as a walk of pc through the script's statements, one  *)
(* step per statement group holding at most one outbound network call.     *)
(***************************************************************************)
EXTENDS Integers, Sequences, FiniteSets, TLC

\* ---------------------------------------------------------------- bounds
MaxTime == 3600         \* the clock stops advancing here
MaxBindings == 3        \* longest binding list given to get_wikidata_props
MaxNodes == 4           \* longest html fragment given to get_commons_image_url
MaxLinks == 47          \* longest link list given to the geocoding loop

\* ------------------------------------------------------ program constants
TTL_LONG == 3600        \* @st.cache_data(ttl=3600)
TTL_IMAGE == 600        \* @st.cache_data(ttl=600)
TTL_WEATHER == 300      \* @st.cache_data(ttl=300)
PLACE_CAP == 30         \* [:30]
YEAR_MIN == 1000        \* 1000 <= y
YEAR_LEN == 4           \* len(token) == 4
CURRENT_YEAR == 2026    \* datetime.utcnow().year

None == "None"          \* Python's None, where the value is otherwise a string
Unbound == "Unbound"    \* a name that no statement of this run has assigned
NoCountry == "-"        \* the selectbox's first option

\* ------------------------------------------------------------------ text
\* TLC strings are atomic: Text gives the characters of the titles and
\* queries of the model, for str.lower(), str.strip() and `word in s`.
Text(s) ==
  CASE s = "Ulm" -> <<"U", "l", "m">>
    [] s = "Rio City" -> <<"R", "i", "o", " ", "C", "i", "t", "y">>
    [] s = "Nile RIVER" -> <<"N", "i", "l", "e", " ", "R", "I", "V", "E", "R">>
    [] s = "Physics" -> <<"P", "h", "y", "s", "i", "c", "s">>
    [] s = " " -> <<" ">>
    [] OTHER -> <<>>

Lower(c) ==
  CASE c = "U" -> "u" [] c = "R" -> "r" [] c = "C" -> "c" [] c = "N" -> "n"
    [] c = "P" -> "p" [] c = "I" -> "i" [] c = "V" -> "v" [] c = "E" -> "e"
    [] OTHER -> c

LowerSeq(s) == [i \in 1..Len(s) |-> Lower(s[i])]

\* `w in s` for strings: w occurs as a contiguous substring of s
Contains(s, w) == \E i \in 0..(Len(s) - Len(w)) : SubSeq(s, i + 1, i + Len(w)) = w

PlaceWords ==
  { <<"c", "i", "t", "y">>, <<"t", "o", "w", "n">>, <<"r", "i", "v", "e", "r">>,
    <<"m", "o", "u", "n", "t">>, <<"i", "s", "l", "a", "n", "d">>,
    <<"c", "o", "u", "n", "t", "r", "y">>, <<"s", "t", "a", "t", "e">>,
    <<"p", "r", "o", "v", "i", "n", "c", "e">> }

IsPlaceLink(title) == \E w \in PlaceWords : Contains(LowerSeq(Text(title)), w)

\* query.strip() is truthy: some character is not whitespace
StripNonEmpty(q) == \E i \in 1..Len(Text(q)) : Text(q)[i] # " "

Prefix(s, n) == SubSeq(s, 1, IF Len(s) < n THEN Len(s) ELSE n)

Min(S) == CHOOSE x \in S : \A y \in S : x <= y

\* ------------------------------------------------- get_wikidata_props
\* A binding is a dict; a variable the row does not bind reads as None
\* through b.get(var, {}).get('value').
Truthy(str) == str # None /\ str # ""

\* props.setdefault(prop, []).append(item)
SetDefaultAppendOverwrite(props, prop, item) ==
  IF prop \in DOMAIN props THEN [props EXCEPT ![prop] = <<item>>]
  ELSE props @@ (prop :> <<item>>)

SetDefaultAppend(props, prop, item) ==
  IF prop \in DOMAIN props THEN [props EXCEPT ![prop] = Append(@, item)]
  ELSE props @@ (prop :> <<item>>)

RECURSIVE PropsLoop(_, _)
PropsLoop(bindings, props) ==
  IF bindings = <<>> THEN props
  ELSE LET b == Head(bindings)
           prop == b.propLabel
           val == b.valueLabel
           val_uri == b.value
       IN PropsLoop(Tail(bindings),
                    IF Truthy(prop)
                    THEN SetDefaultAppend(props, prop, [label |-> val, uri |-> val_uri])
                    ELSE props)

\* the body of get_wikidata_props after the query returned `bindings`
BuildProps(bindings) == PropsLoop(bindings, <<>>)

\* ---------------------------------------------- get_commons_image_url
\* An html fragment is its elements in document order.  node.parent is the
\* index of the enclosing table element (0: not inside a table); src is the
\* characters of the src attribute, <<>> when absent or empty.
NoUrl == <<>>
SrcRel == <<"/", "/", "a">>
SrcAbs == <<"h", "t", "t", "p", "s", ":", "/", "/", "b">>
HttpsPrefix == <<"h", "t", "t", "p", "s", ":">>

RECURSIVE Inside(_, _, _)
\* element i is a descendant of element t
Inside(nodes, i, t) ==
  /\ nodes[i].parent # 0
  /\ (nodes[i].parent = t \/ Inside(nodes, nodes[i].parent, t))

\* soup.find('table', {'class': 'infobox'}): index of the first one, 0 if none
FindInfobox(nodes) ==
  LET S == {i \in 1..Len(nodes) : nodes[i].tag = "table" /\ nodes[i].infobox}
  IN IF S = {} THEN 0 ELSE Min(S)

\* root.find('img'): index of the first img below root (0: the whole soup)
FindImg(nodes, root) ==
  LET S == {i \in 1..Len(nodes) :
              nodes[i].tag = "img" /\ (root = 0 \/ Inside(nodes, i, root))}
  IN IF S = {} THEN 0 ELSE Min(S)

\* if src.startswith('//'): src = 'https:' + src
Absolute(src) ==
  IF Len(src) >= 2 /\ SubSeq(src, 1, 2) = <<"/", "/">> THEN HttpsPrefix \o src ELSE src

\* the try-body of get_commons_image_url on the parsed fragment
ExtractImage(nodes) ==
  LET infobox == FindInfobox(nodes)
      img1 == IF infobox # 0 THEN FindImg(nodes, infobox) ELSE 0
      img2 == FindImg(nodes, 0)
  IN IF infobox # 0 /\ img1 # 0 /\ nodes[img1].src # <<>>
     THEN Absolute(nodes[img1].src)
     ELSE IF img2 # 0 /\ nodes[img2].src # <<>>
          THEN Absolute(nodes[img2].src)
          ELSE NoUrl

\* get_commons_image_url without its memo table: `page` is the outcome of
\* get_wikipedia_page, [ok |-> FALSE] when it raised (except Exception)
ImageOf(page) == IF page.ok THEN ExtractImage(page.val.nodes) ELSE NoUrl

\* ------------------------------------------------ linked-place filter
\* [l['*'] for l in links if any(word in l['*'].lower() ...)][:30]
PlaceLinks(links) == Prefix(SelectSeq(links, IsPlaceLink), PLACE_CAP)

\* ------------------------------------------------------------ timeline
\* a token of soup.get_text().split(): its length, isdigit() and int value
IsYear(token) ==
  /\ token.len = YEAR_LEN /\ token.digits
  /\ YEAR_MIN <= token.val /\ token.val <= CURRENT_YEAR

Years(tokens) == SelectSeq(tokens, IsYear)

\* "Point(LON LAT)": coordval.startswith('Point(') and coordval.endswith(')'),
\* then lon, lat = inside.split(' ') and float() of both.  `fields` are the
\* pieces of the split, each a number or not.
\* "marker": a marker is added; "skip": nothing; "raise": ValueError
ParsePoint(coordval) ==
  IF ~coordval.wrapped THEN "skip"
  ELSE IF Len(coordval.fields) # 2 THEN "raise"
  ELSE IF \A i \in 1..2 : coordval.fields[i] THEN "marker" ELSE "raise"

\* ------------------------------------------------------------ the world
\* What the remote services can answer, drawn from small sets.
Titles == {"Ulm", "Rio City"}                     \* articles that can be opened
LinkTitles == {"Physics", "Rio City", "Nile RIVER"}   \* titles met in link lists
Queries == {"", " ", "Ulm"}                       \* the search box
Peru == [name |-> "Peru", population |-> TRUE, area |-> TRUE, latlng |-> TRUE]
PeruNoArea == [name |-> "Peru", population |-> TRUE, area |-> FALSE, latlng |-> TRUE]

\* the Wikidata item of a title (a fact of the world, stable over time)
QidOf(title) ==
  CASE title = "Ulm" -> "Q1" [] title = "Rio City" -> "Q2"
    [] title = "Nile RIVER" -> "Q3" [] OTHER -> "Q4"

GoodPoint == [wrapped |-> TRUE, fields |-> <<TRUE, TRUE>>]     \* "Point(1.5 2.5)"
BadPoint == [wrapped |-> TRUE, fields |-> <<TRUE, TRUE, FALSE>>]  \* "Point(1.5 2.5 x)"

PageRich ==
  [nodes |-> << [tag |-> "img", infobox |-> FALSE, parent |-> 0, src |-> SrcAbs],
                [tag |-> "table", infobox |-> TRUE, parent |-> 0, src |-> <<>>],
                [tag |-> "img", infobox |-> FALSE, parent |-> 2, src |-> SrcRel] >>,
   links |-> <<"Physics", "Rio City">>,
   coordinates |-> TRUE,
   tokens |-> << [len |-> 4, digits |-> TRUE, val |-> 1879],
                 [len |-> 4, digits |-> TRUE, val |-> 9999] >>]
PagePlain ==
  [nodes |-> <<>>, links |-> <<>>, coordinates |-> FALSE, tokens |-> <<>>]

Fns == {"countries", "search", "page", "summary", "wdid", "sparql", "image",
        "weather", "props", "related"}

\* the arguments a memoized function is called with, as a tuple of strings
KeysOf(fn) ==
  CASE fn = "countries" -> {<<>>}
    [] fn = "search" -> {<<q, "12">> : q \in Queries}
    [] fn \in {"page", "summary", "image"} -> {<<t>> : t \in Titles}
    [] fn = "wdid" -> {<<t>> : t \in Titles \cup LinkTitles}
    [] fn = "sparql" ->
         {<<"props", QidOf(t)>> : t \in Titles}
         \cup {<<"related", QidOf(t)>> : t \in Titles}
         \cup {<<"coord", QidOf(t)>> : t \in LinkTitles}
         \cup {<<"label", q>> : q \in Queries}
         \cup {<<"country", "Peru">>}
    [] fn = "weather" -> {<<"Peru">>}
    [] fn = "props" -> {<<QidOf(t)>> : t \in Titles}
    [] fn = "related" -> {<<QidOf(t), "80">> : t \in Titles}

\* what a call of fn can return when it does not raise
AllVals(fn, key) ==
  CASE fn = "countries" -> {<<Peru>>, <<PeruNoArea>>}
    [] fn = "search" -> {<<"Rio City", "Ulm">>, <<>>}
    [] fn = "page" -> {PageRich, PagePlain}
    [] fn = "summary" -> { [exists |-> TRUE, thumbnail |-> None],
                           [exists |-> FALSE, thumbnail |-> None],
                           [exists |-> TRUE, thumbnail |-> "thumb.jpg"] }
    [] fn = "wdid" -> {QidOf(key[1]), None}
    [] fn = "weather" -> {[current_weather |-> TRUE], [current_weather |-> FALSE]}
    [] fn = "sparql" ->
         CASE key[1] = "props" ->
                { << [propLabel |-> "country", valueLabel |-> "Germany", value |-> "Q183"],
                     [propLabel |-> "country", valueLabel |-> "Ulm", value |-> "Q3012"] >>,
                  <<>> }
           [] key[1] = "related" ->
                { << [item |-> "Q183", itemLabel |-> "Germany", link |-> "outgoing"] >>,
                  << [item |-> None, itemLabel |-> None, link |-> None] >>, <<>> }
           [] key[1] = "coord" -> { << [coord |-> GoodPoint] >>, << [coord |-> BadPoint] >>, <<>> }
           [] key[1] = "label" -> { << [itemLabel |-> "Ulm"] >>, <<>> }
           [] key[1] = "country" -> { << [country |-> "Q419"] >>, <<>> }

\* the answer of a service whose content does not vary in this session
Canon(fn, key) ==
  CASE fn = "countries" -> <<Peru>>
    [] fn = "search" -> <<"Rio City", "Ulm">>
    [] fn = "page" -> IF key[1] = "Ulm" THEN PageRich ELSE PagePlain
    [] fn = "summary" -> [exists |-> TRUE, thumbnail |-> None]
    [] fn = "wdid" -> QidOf(key[1])
    [] fn = "weather" -> [current_weather |-> TRUE]
    [] fn = "sparql" ->
         CASE key[1] = "props" ->
                << [propLabel |-> "country", valueLabel |-> "Germany", value |-> "Q183"],
                   [propLabel |-> "country", valueLabel |-> "Ulm", value |-> "Q3012"] >>
           [] key[1] = "related" ->
                << [item |-> "Q183", itemLabel |-> "Germany", link |-> "outgoing"] >>
           [] key[1] = "coord" -> << [coord |-> GoodPoint] >>
           [] key[1] = "label" -> << [itemLabel |-> "Ulm"] >>
           [] key[1] = "country" -> << [country |-> "Q419"] >>

\* ---------------------------------------------------------------- state
VARIABLES
  world,          \* what the remote services hold and how they may fail in this session
  now,            \* seconds since the session began
  params,         \* the URL query parameters
  session_state,  \* st.session_state
  cache,          \* the st.cache_data memo tables: fn -> key -> <<>> or <<entry>>
  widgets,        \* the conditional buttons the last run put on the page
  query,          \* value of the text input
  chosen_country, \* value of the country selectbox
  pc,             \* position of the current run in the script; "idle" between runs
  clicked,        \* the button whose click caused this run
  net,            \* the outbound call the last step issued: <<>> or <<call>>
  lastCall,       \* the latest outbound call of each function and key (history)
  countries, search, selected_title, thumb, parse, img_url, wikidata_id, bindings, props,
  place_links, idx, qid, attempted, geoFailed, markers,  \* locals of the script
  shown,          \* what this run has put on the page
  aborted         \* this run ended with an uncaught exception

persistent == <<world, now, params, session_state, cache, widgets, query, chosen_country>>
history == <<net, lastCall>>
locals == <<countries, search, selected_title, thumb, parse, img_url, wikidata_id, bindings, props,
            place_links, idx, qid, attempted, geoFailed, markers>>
vars == <<persistent, pc, clicked, history, locals, shown, aborted>>

\* the sessions explored: which articles exist, which services answer
\* differently from call to call, which may raise, and what the user does
\* besides clicking buttons
Worlds ==
  { [name |-> "properties", titles |-> {"Ulm"}, vary |-> {"wdid", "q_props"},
     fail |-> {"wdid", "q_props", "q_related", "q_coord"}, user |-> {}],
    [name |-> "images", titles |-> {"Ulm"}, vary |-> {"summary", "page"},
     fail |-> {"summary", "page"}, user |-> {}],
    [name |-> "bookmarks", titles |-> {"Ulm", "Rio City"}, vary |-> {},
     fail |-> {"page"}, user |-> {}],
    [name |-> "ttl", titles |-> {"Ulm"}, vary |-> {},
     fail |-> {"summary", "page", "wdid", "q_props"}, user |-> {"tick"}],
    [name |-> "search", titles |-> {"Ulm"}, vary |-> {"search", "q_label"},
     fail |-> {"search", "q_label"}, user |-> {"edit"}],
    [name |-> "country", titles |-> {"Ulm"}, vary |-> {"countries", "weather", "q_country"},
     fail |-> {"countries", "weather", "q_country"}, user |-> {"country"}],
    [name |-> "navigation", titles |-> {"Ulm"}, vary |-> {}, fail |-> {},
     user |-> {"edit", "country"}] }

\* the service behind a call: the SPARQL endpoint answers per kind of query
Service(fn, key) ==
  IF fn # "sparql" THEN fn
  ELSE CASE key[1] = "props" -> "q_props" [] key[1] = "related" -> "q_related"
         [] key[1] = "coord" -> "q_coord" [] key[1] = "label" -> "q_label"
         [] key[1] = "country" -> "q_country"

ValsOf(fn, key) ==
  IF Service(fn, key) \in world.vary THEN AllVals(fn, key) ELSE {Canon(fn, key)}

\* the outcomes of one outbound call: it returns a value, or it raises
Outcomes(fn, key) ==
  {[ok |-> TRUE, val |-> v] : v \in ValsOf(fn, key)}
  \cup (IF Service(fn, key) \in world.fail
        THEN {[ok |-> FALSE, val |-> Canon(fn, key)]} ELSE {})

\* ------------------------------------------------------- st.cache_data
TTL(fn) ==
  CASE fn = "image" -> TTL_IMAGE [] fn = "weather" -> TTL_WEATHER [] OTHER -> TTL_LONG

\* a lookup finds an entry that has not reached insertedAt + ttl
FreshIgnoringTtl(fn, key) == cache[fn][key] # <<>>

Fresh(fn, key) == cache[fn][key] # <<>> /\ now - cache[fn][key][1].at < TTL(fn)

\* the value a memoized call hands back: the entry, or the outcome of the body
Ret(fn, key, out) ==
  IF Fresh(fn, key) THEN [ok |-> TRUE, val |-> cache[fn][key][1].val] ELSE out

\* the memo table after the call: a return value is stored, an exception is
\* not, and an expired entry is dropped by the lookup that finds it
Stored(c, fn, key, out) ==
  IF Fresh(fn, key) THEN c
  ELSE IF out.ok THEN [c EXCEPT ![fn][key] = <<[at |-> now, val |-> out.val]>>]
       ELSE [c EXCEPT ![fn][key] = <<>>]

\* the outcomes to consider: the body runs only on a miss
Draw(fn, key) ==
  IF Fresh(fn, key) THEN {CHOOSE o \in Outcomes(fn, key) : TRUE} ELSE Outcomes(fn, key)

\* bookkeeping (history): `net` is the lookup the last step made in the memo
\* table of a function whose body goes to the network, whether the body ran
\* (hit = FALSE), and `prev`, the outbound call made for the same arguments
\* before it; lastCall keeps the latest outbound call per function and key
Calls(fn, key, out) ==
  /\ net' = <<[fn |-> fn, key |-> key, at |-> now, hit |-> Fresh(fn, key),
               ok |-> Fresh(fn, key) \/ out.ok, prev |-> lastCall[fn][key]]>>
  /\ lastCall' = IF Fresh(fn, key) THEN lastCall
                 ELSE [lastCall EXCEPT ![fn][key] = <<[at |-> now, ok |-> out.ok]>>]

NoCall ==
  /\ net' = <<>>
  /\ UNCHANGED lastCall

\* ----------------------------------------------------------------- runs
NoParams == [page |-> None, country |-> None]
\* `picked` is the value of the 'Choose a page' selectbox of line 363
NoSearch == [done |-> FALSE, results |-> <<>>, picked |-> None, wd |-> "unset"]

\* the script's namespace is fresh in every run
FreshLocals ==
  /\ countries' = <<>>
  /\ search' = NoSearch
  /\ selected_title' = None
  /\ thumb' = Unbound
  /\ parse' = PagePlain
  /\ img_url' = NoUrl
  /\ wikidata_id' = None
  /\ bindings' = <<>>
  /\ props' = <<>>
  /\ place_links' = <<>>
  /\ idx' = 0
  /\ qid' = None
  /\ attempted' = <<>>
  /\ geoFailed' = 0
  /\ markers' = 0

StartRun(button) ==
  /\ pc' = "sidebar"
  /\ clicked' = button
  /\ shown' = {}
  /\ aborted' = FALSE
  /\ widgets' = {}
  /\ FreshLocals


Init ==
  /\ world \in Worlds
  /\ now = 0
  /\ params = NoParams
  /\ session_state = <<>>
  /\ cache = [fn \in Fns |-> [k \in KeysOf(fn) |-> <<>>]]
  /\ widgets = {}
  /\ query = ""
  /\ chosen_country = NoCountry
  /\ pc = "start"
  /\ clicked = "none"
  /\ net = <<>>
  /\ lastCall = [fn \in Fns |-> [k \in KeysOf(fn) |-> <<>>]]
  /\ countries = <<>>
  /\ search = NoSearch
  /\ selected_title = None
  /\ thumb = Unbound
  /\ parse = PagePlain
  /\ img_url = NoUrl
  /\ wikidata_id = None
  /\ bindings = <<>>
  /\ props = <<>>
  /\ place_links = <<>>
  /\ idx = 0
  /\ qid = None
  /\ attempted = <<>>
  /\ geoFailed = 0
  /\ markers = 0
  /\ shown = {}
  /\ aborted = FALSE

TickSteps == {TTL_LONG \div 2, TTL_LONG}

\* time passes between runs
Tick ==
  /\ pc = "idle"
  /\ "tick" \in world.user
  /\ \E d \in TickSteps : now + d <= MaxTime /\ now' = now + d
  /\ UNCHANGED <<world, params, session_state, cache, widgets, query, chosen_country,
                 pc, clicked, history, locals, shown, aborted>>

\* the browser opens the app: the first run of the session
Open ==
  /\ pc = "start"
  /\ StartRun("none")
  /\ NoCall
  /\ UNCHANGED <<world, now, params, session_state, cache, query, chosen_country>>

\* st.button returns True only in the run its click caused, and only a button
\* that is on the page can be clicked
Buttons == {"search", "random", "clear_bkm"} \cup widgets

Click ==
  /\ pc = "idle"
  /\ \E b \in Buttons : StartRun(b)
  /\ NoCall
  /\ UNCHANGED <<world, now, params, session_state, cache, query, chosen_country>>

\* editing the text input or the selectbox re-runs the script, no button set
EditQuery ==
  /\ pc = "idle"
  /\ "edit" \in world.user
  /\ \E q \in Queries \ {query} : query' = q
  /\ StartRun("none")
  /\ NoCall
  /\ UNCHANGED <<world, now, params, session_state, cache, chosen_country>>

ChooseCountry ==
  /\ pc = "idle"
  /\ "country" \in world.user
  /\ \E c \in {NoCountry, "Peru"} \ {chosen_country} : chosen_country' = c
  /\ StartRun("none")
  /\ NoCall
  /\ UNCHANGED <<world, now, params, session_state, cache, query>>

\* an exception no try block catches: Streamlit shows it and the run stops
Abort ==
  /\ aborted' = TRUE
  /\ pc' = "done"
  /\ UNCHANGED locals

\* lines 272-282: the sidebar; get_rest_countries catches every exception and
\* returns [], which is memoized like any return value
CountryNames(cs) == {cs[i].name : i \in 1..Len(cs)}

Sidebar ==
  /\ pc = "sidebar"
  /\ \E out \in Draw("countries", <<>>) :
       LET body == IF out.ok THEN out ELSE [ok |-> TRUE, val |-> <<>>]
           r == Ret("countries", <<>>, body)
       IN /\ cache' = Stored(cache, "countries", <<>>, body)
          /\ Calls("countries", <<>>, body)
          /\ countries' = r.val
          /\ chosen_country' =
               IF chosen_country \in CountryNames(r.val) THEN chosen_country ELSE NoCountry
          /\ shown' = IF ~Fresh("countries", <<>>) /\ ~out.ok
                      THEN shown \cup {"country_error"} ELSE shown
  /\ pc' = IF clicked = "random" THEN "random" ELSE "session"
  /\ UNCHANGED <<world, now, params, session_state, widgets, query, clicked, aborted,
                 search, selected_title, thumb, parse, img_url, wikidata_id, bindings, props,
                 place_links, idx, qid, attempted, geoFailed, markers>>

\* lines 283-288: requests.get is not memoized and not in a try block
Random ==
  /\ pc = "random"
  /\ NoCall
  /\ \/ Abort /\ UNCHANGED <<params, clicked, shown, widgets>>
     \/ /\ pc' = "session"                     \* not r.ok
        /\ UNCHANGED <<params, clicked, shown, aborted, widgets, locals>>
     \/ \E rand_title \in world.titles :
          /\ params' = [page |-> rand_title, country |-> None]
          /\ StartRun("none")                  \* st.experimental_rerun()
  /\ UNCHANGED <<world, now, session_state, cache, query, chosen_country>>

\* line 289: the value of st.button("Clear bookmarks") is not used;
\* lines 292-293: the bookmark list is created on the first run
Session ==
  /\ pc = "session"
  /\ session_state' = IF "bookmarks" \in DOMAIN session_state THEN session_state
                      ELSE session_state @@ ("bookmarks" :> <<>>)
  /\ pc' = "country"
  /\ NoCall
  /\ UNCHANGED <<world, now, params, cache, widgets, query, chosen_country, clicked,
                 locals, shown, aborted>>

\* lines 295-310: the country overview.  The ',' format of line 307 raises on
\* a missing population and that of line 308 on the 'N/A' default.
Country ==
  /\ pc = "country"
  /\ NoCall
  /\ IF chosen_country # NoCountry
     THEN LET country_data == SelectSeq(countries, LAMBDA c : c.name = chosen_country)
          IN /\ params' = [page |-> None, country |-> chosen_country]
             /\ IF country_data = <<>>
                THEN /\ pc' = "search"
                     /\ UNCHANGED <<shown, aborted, locals>>
                ELSE IF ~country_data[1].population \/ ~country_data[1].area
                THEN /\ Abort
                     /\ shown' = shown \cup {"country"}
                ELSE /\ pc' = "country_wd"
                     /\ shown' = shown \cup {"country"}
                     /\ UNCHANGED <<aborted, locals>>
     ELSE /\ pc' = "search"
          /\ UNCHANGED <<params, shown, aborted, locals>>
  /\ UNCHANGED <<world, now, session_state, cache, widgets, query, chosen_country, clicked>>

\* lines 314-323: the country's item, looked up inside try/except
CountryWd ==
  /\ pc = "country_wd"
  /\ LET key == <<"country", chosen_country>>
         c == SelectSeq(countries, LAMBDA x : x.name = chosen_country)[1]
     IN /\ \E out \in Draw("sparql", key) :
             /\ cache' = Stored(cache, "sparql", key, out)
             /\ Calls("sparql", key, out)
        /\ pc' = IF c.latlng THEN "weather" ELSE "search"
        /\ shown' = IF c.latlng THEN shown \cup {"country_map"} ELSE shown
  /\ UNCHANGED <<world, now, params, session_state, widgets, query, chosen_country, clicked,
                 locals, aborted>>

\* lines 331-339: the weather snapshot, inside try/except
Weather ==
  /\ pc = "weather"
  /\ \E out \in Draw("weather", <<chosen_country>>) :
       LET w == Ret("weather", <<chosen_country>>, out)
       IN /\ cache' = Stored(cache, "weather", <<chosen_country>>, out)
          /\ Calls("weather", <<chosen_country>>, out)
          /\ shown' = IF ~w.ok THEN shown \cup {"weather_info"}
                      ELSE IF w.val.current_weather THEN shown \cup {"weather"}
                      ELSE shown
  /\ pc' = "search"
  /\ UNCHANGED <<world, now, params, session_state, widgets, query, chosen_country, clicked,
                 locals, aborted>>

\* lines 344-348 and 361-363: search_wikipedia is called outside any try block
Search ==
  /\ pc = "search"
  /\ IF clicked = "search" /\ StripNonEmpty(query)
     THEN \E out \in Draw("search", <<query, "12">>) :
            LET r == Ret("search", <<query, "12">>, out)
            IN /\ cache' = Stored(cache, "search", <<query, "12">>, out)
               /\ Calls("search", <<query, "12">>, out)
               /\ IF ~r.ok
                  THEN /\ Abort
                       /\ UNCHANGED shown
                  ELSE IF r.val = <<>>
                  THEN /\ pc' = "search_wd"
                       /\ search' = [done |-> TRUE, results |-> r.val, picked |-> None,
                                     wd |-> "unset"]
                       /\ shown' = shown \cup {"no_results"}
                       /\ UNCHANGED <<aborted, countries, selected_title, thumb, parse,
                                      img_url, wikidata_id, bindings, props, place_links, idx, qid,
                                      attempted, geoFailed, markers>>
                  ELSE /\ pc' = "select"
                       /\ \E i \in 1..Len(r.val) :
                            /\ selected_title' = r.val[i]
                            /\ search' = [done |-> TRUE, results |-> r.val,
                                          picked |-> r.val[i], wd |-> "unset"]
                       /\ UNCHANGED <<shown, aborted, countries, thumb, parse,
                                      img_url, wikidata_id, bindings, props, place_links, idx, qid,
                                      attempted, geoFailed, markers>>
     ELSE /\ pc' = "select"
          /\ NoCall
          /\ UNCHANGED <<cache, shown, aborted, locals>>
  /\ UNCHANGED <<world, now, params, session_state, widgets, query, chosen_country, clicked>>

\* the title the search step leaves selected after the label lookup
\* (lines 352-360): `r` is the outcome of wikidata_sparql, `pick` the option
\* the selectbox returns
LabelSelectionFallback(r, pick) ==
  IF r.ok /\ r.val # <<>> THEN r.val[pick].itemLabel ELSE query

LabelSelection(r, pick) ==
  IF r.ok /\ r.val # <<>> THEN r.val[pick].itemLabel ELSE None

\* lines 349-360: the fallback label search, inside try/except
SearchWd ==
  /\ pc = "search_wd"
  /\ \E out \in Draw("sparql", <<"label", query>>) :
       LET r == Ret("sparql", <<"label", query>>, out)
       IN /\ cache' = Stored(cache, "sparql", <<"label", query>>, out)
          /\ Calls("sparql", <<"label", query>>, out)
          /\ \E pick \in 1..(IF r.ok /\ r.val # <<>> THEN Len(r.val) ELSE 1) :
               selected_title' = LabelSelection(r, pick)
          /\ search' = [search EXCEPT !.wd = IF ~r.ok THEN "raise"
                                            ELSE IF r.val = <<>> THEN "empty" ELSE "hit"]
          /\ shown' = IF ~r.ok THEN shown \cup {"wikidata_failed"} ELSE shown
  /\ pc' = "select"
  /\ UNCHANGED <<world, now, params, session_state, widgets, query, chosen_country, clicked,
                 aborted, countries, thumb, parse, img_url, wikidata_id, bindings, props, place_links,
                 idx, qid, attempted, geoFailed, markers>>

\* lines 366-368: the title that is rendered, given the query parameters and
\* the title the search step selected
SelectedSearchFirst(p, title) == IF title # None THEN title ELSE p.page

Selected(p, title) == IF p.page # None THEN p.page ELSE title

\* lines 366-372: a 'page' query parameter overrides the selection
Select ==
  /\ pc = "select"
  /\ NoCall
  /\ LET title == Selected(params, selected_title)
     IN /\ selected_title' = title
        /\ pc' = IF title # None THEN "summary" ELSE "panel"
        /\ shown' = IF title # None THEN shown \cup {"header"} ELSE shown
  /\ UNCHANGED <<world, now, params, session_state, cache, widgets, query, chosen_country,
                 clicked, aborted, countries, search, thumb, parse, img_url,
                 wikidata_id, bindings, props, place_links, idx, qid, attempted, geoFailed, markers>>

\* except Exception as e: st.error(...) (lines 484-485)
PageError ==
  /\ shown' = shown \cup {"page_error"}
  /\ pc' = "panel"

\* lines 374-381
Summary ==
  /\ pc = "summary"
  /\ \E out \in Draw("summary", <<selected_title>>) :
       LET summary == Ret("summary", <<selected_title>>, out)
       IN /\ cache' = Stored(cache, "summary", <<selected_title>>, out)
          /\ Calls("summary", <<selected_title>>, out)
          /\ IF ~summary.ok
             THEN PageError /\ UNCHANGED thumb
             ELSE IF summary.val.exists
             THEN /\ thumb' = summary.val.thumbnail
                  /\ shown' = shown \cup {"summary"}
                                \cup (IF summary.val.thumbnail # None THEN {"thumb"} ELSE {})
                  /\ pc' = "page"
             ELSE /\ pc' = "page"
                  /\ UNCHANGED <<thumb, shown>>
  /\ UNCHANGED <<world, now, params, session_state, widgets, query, chosen_country, clicked,
                 aborted, countries, search, selected_title, parse, img_url,
                 wikidata_id, bindings, props, place_links, idx, qid, attempted,
                 geoFailed, markers>>

\* lines 383-410
Page ==
  /\ pc = "page"
  /\ \E out \in Draw("page", <<selected_title>>) :
       LET page == Ret("page", <<selected_title>>, out)
       IN /\ cache' = Stored(cache, "page", <<selected_title>>, out)
          /\ Calls("page", <<selected_title>>, out)
          /\ IF ~page.ok
             THEN PageError /\ UNCHANGED parse
             ELSE /\ parse' = page.val
                  /\ shown' = IF FindInfobox(page.val.nodes) # 0
                              THEN shown \cup {"infobox"} ELSE shown
                  /\ pc' = "image"
  /\ UNCHANGED <<world, now, params, session_state, widgets, query, chosen_country, clicked,
                 aborted, countries, search, selected_title, thumb, img_url,
                 wikidata_id, bindings, props, place_links, idx, qid, attempted,
                 geoFailed, markers>>

\* what line 413 does with the two images: "raise" is the NameError of reading
\* `thumb` when line 378 did not run
Fallback(url, th) ==
  IF url = NoUrl THEN "no"
  ELSE IF th = Unbound THEN "raise"
  ELSE IF th = None THEN "show" ELSE "no"

\* lines 411-414; get_commons_image_url is memoized over get_wikipedia_page
Image ==
  /\ pc = "image"
  /\ LET key == <<selected_title>>
     IN IF Fresh("image", key)
        THEN /\ img_url' = cache["image"][key][1].val
             /\ NoCall
             /\ UNCHANGED cache
        ELSE \E out \in Draw("page", key) :
               LET page == Ret("page", key, out)
                   url == ImageOf(page)
               IN /\ img_url' = url
                  /\ Calls("page", key, out)
                  /\ cache' = Stored(Stored(cache, "page", key, out), "image", key,
                                     [ok |-> TRUE, val |-> url])
  /\ LET f == Fallback(img_url', thumb)
     IN IF f = "raise" THEN PageError
        ELSE /\ shown' = IF f = "show" THEN shown \cup {"fallback_image"} ELSE shown
             /\ pc' = "wdid"
  /\ UNCHANGED <<world, now, params, session_state, widgets, query, chosen_country, clicked,
                 aborted, countries, search, selected_title, thumb, parse,
                 wikidata_id, bindings, props, place_links, idx, qid, attempted,
                 geoFailed, markers>>

\* lines 416-419
Wdid ==
  /\ pc = "wdid"
  /\ \E out \in Draw("wdid", <<selected_title>>) :
       LET r == Ret("wdid", <<selected_title>>, out)
       IN /\ cache' = Stored(cache, "wdid", <<selected_title>>, out)
          /\ Calls("wdid", <<selected_title>>, out)
          /\ IF ~r.ok
             THEN PageError /\ UNCHANGED wikidata_id
             ELSE /\ wikidata_id' = r.val
                  /\ shown' = IF r.val # None THEN shown \cup {"wikidata"} ELSE shown
                  /\ pc' = IF r.val # None THEN "props" ELSE "map"
  /\ UNCHANGED <<world, now, params, session_state, widgets, query, chosen_country, clicked,
                 aborted, countries, search, selected_title, thumb, parse, img_url,
                 bindings, props, place_links, idx, qid, attempted, geoFailed, markers>>

\* lines 420-427; get_wikidata_props is memoized over wikidata_sparql, and
\* nothing between line 420 and the except of line 484 catches what it raises
Props ==
  /\ pc = "props"
  /\ LET key == <<wikidata_id>>
         q == <<"props", wikidata_id>>
     IN IF Fresh("props", key)
        THEN /\ props' = cache["props"][key][1].val
             /\ NoCall
             /\ UNCHANGED <<cache, bindings>>
             /\ shown' = shown \cup {"props"}
             /\ widgets' = widgets \cup {"graph"}
             /\ pc' = IF clicked = "graph" THEN "graph" ELSE "map"
        ELSE \E out \in Draw("sparql", q) :
               LET res == Ret("sparql", q, out)
               IN /\ Calls("sparql", q, out)
                  /\ IF ~res.ok
                     THEN /\ PageError
                          /\ cache' = Stored(cache, "sparql", q, out)
                          /\ UNCHANGED <<props, bindings, widgets>>
                     ELSE /\ bindings' = res.val
                          /\ props' = BuildProps(res.val)
                          /\ cache' = Stored(Stored(cache, "sparql", q, out), "props", key,
                                             [ok |-> TRUE, val |-> BuildProps(res.val)])
                          /\ shown' = shown \cup {"props"}
                          /\ widgets' = widgets \cup {"graph"}
                          /\ pc' = IF clicked = "graph" THEN "graph" ELSE "map"
  /\ UNCHANGED <<world, now, params, session_state, query, chosen_country, clicked,
                 aborted, countries, search, selected_title, thumb, parse, img_url,
                 wikidata_id, place_links, idx, qid, attempted, geoFailed, markers>>

\* lines 247-263, called from line 428: n['uri'].split raises on a row
\* without ?item
Graph ==
  /\ pc = "graph"
  /\ LET key == <<wikidata_id, "80">>
         q == <<"related", wikidata_id>>
         Draws(nodes) == IF \E i \in 1..Len(nodes) : nodes[i].item = None
                         THEN PageError
                         ELSE shown' = shown \cup {"graph"} /\ pc' = "map"
     IN IF Fresh("related", key)
        THEN /\ NoCall
             /\ UNCHANGED cache
             /\ Draws(cache["related"][key][1].val)
        ELSE \E out \in Draw("sparql", q) :
               LET res == Ret("sparql", q, out)
               IN /\ Calls("sparql", q, out)
                  /\ IF ~res.ok
                     THEN /\ PageError
                          /\ cache' = Stored(cache, "sparql", q, out)
                     ELSE /\ cache' = Stored(Stored(cache, "sparql", q, out), "related", key,
                                             [ok |-> TRUE, val |-> res.val])
                          /\ Draws(res.val)
  /\ UNCHANGED <<world, now, params, session_state, widgets, query, chosen_country, clicked,
                 aborted, locals>>

\* lines 431-438
Map ==
  /\ pc = "map"
  /\ NoCall
  /\ shown' = shown \cup {"map_header"}
  /\ place_links' = PlaceLinks(parse.links)
  /\ idx' = 1
  /\ pc' = IF PlaceLinks(parse.links) = <<>> THEN "timeline" ELSE "geo_id"
  /\ UNCHANGED <<world, now, params, session_state, cache, widgets, query, chosen_country,
                 clicked, aborted, countries, search, selected_title, thumb, parse,
                 img_url, wikidata_id, bindings, props, qid, attempted, geoFailed,
                 markers>>

\* the for statement of line 440 takes the next place, or the loop is over
NextPlace ==
  /\ idx' = idx + 1
  /\ pc' = IF idx + 1 > Len(place_links) THEN "timeline" ELSE "geo_id"

\* except Exception: continue (lines 455-456)
SkipPlaceAndStop ==
  /\ geoFailed' = idx
  /\ idx' = idx + 1
  /\ pc' = "timeline"

SkipPlace ==
  /\ geoFailed' = idx
  /\ NextPlace

\* lines 440-443: one place of the loop, up to its page-properties lookup
GeoId ==
  /\ pc = "geo_id"
  /\ LET pl == place_links[idx]
     IN /\ attempted' = Append(attempted, pl)
        /\ \E out \in Draw("wdid", <<pl>>) :
             LET r == Ret("wdid", <<pl>>, out)
             IN /\ cache' = Stored(cache, "wdid", <<pl>>, out)
                /\ Calls("wdid", <<pl>>, out)
                /\ IF ~r.ok THEN SkipPlace /\ UNCHANGED qid
                   ELSE IF r.val = None THEN NextPlace /\ UNCHANGED <<qid, geoFailed>>
                   ELSE /\ qid' = r.val
                        /\ pc' = "geo_coord"
                        /\ UNCHANGED <<idx, geoFailed>>
  /\ UNCHANGED <<world, now, params, session_state, widgets, query, chosen_country, clicked,
                 aborted, countries, search, selected_title, thumb, parse, img_url,
                 wikidata_id, bindings, props, place_links, markers, shown>>

\* lines 444-454: the coordinate query of the place and its marker
GeoCoord ==
  /\ pc = "geo_coord"
  /\ \E out \in Draw("sparql", <<"coord", qid>>) :
       LET res == Ret("sparql", <<"coord", qid>>, out)
           how == IF ~res.ok THEN "raise"
                  ELSE IF res.val = <<>> THEN "skip"
                  ELSE ParsePoint(res.val[1].coord)
       IN /\ cache' = Stored(cache, "sparql", <<"coord", qid>>, out)
          /\ Calls("sparql", <<"coord", qid>>, out)
          /\ IF how = "raise" THEN SkipPlace /\ UNCHANGED markers
             ELSE /\ NextPlace
                  /\ markers' = IF how = "marker" THEN markers + 1 ELSE markers
                  /\ UNCHANGED geoFailed
  /\ UNCHANGED <<world, now, params, session_state, widgets, query, chosen_country, clicked,
                 aborted, countries, search, selected_title, thumb, parse, img_url,
                 wikidata_id, bindings, props, place_links, qid, attempted, shown>>

\* lines 478-482: the list after 'Bookmark this page' on `title`
BookmarkedAlways(bookmarks, title) == Append(bookmarks, title)

Bookmarked(bookmarks, title) ==
  IF \A i \in 1..Len(bookmarks) : bookmarks[i] # title
  THEN Append(bookmarks, title) ELSE bookmarks

\* lines 457-482: the map, the timeline and the bookmark button
Timeline ==
  /\ pc = "timeline"
  /\ NoCall
  /\ widgets' = widgets \cup {"bookmark"}
  /\ shown' = shown \cup {"map", "bookmark_button"}
                \cup (IF Years(parse.tokens) # <<>> THEN {"timeline_chart"}
                      ELSE {"timeline_info"})
                \cup (IF clicked # "bookmark" THEN {}
                      ELSE IF Bookmarked(session_state["bookmarks"], selected_title)
                              # session_state["bookmarks"]
                      THEN {"bookmarked"} ELSE {"already_bookmarked"})
  /\ session_state' =
       IF clicked = "bookmark"
       THEN [session_state EXCEPT
               !["bookmarks"] = Bookmarked(session_state["bookmarks"], selected_title)]
       ELSE session_state
  /\ pc' = "panel"
  /\ UNCHANGED <<world, now, params, cache, query, chosen_country, clicked, aborted, locals>>

\* lines 488-497: the bookmarks panel and the footer
Panel ==
  /\ pc = "panel"
  /\ NoCall
  /\ widgets' = widgets \cup {"export"}
  /\ shown' = shown \cup {"bookmarks_panel"}
                \cup (IF clicked = "export" THEN {"download"} ELSE {})
  /\ pc' = "done"
  /\ UNCHANGED <<world, now, params, session_state, cache, query, chosen_country, clicked,
                 aborted, locals>>

\* the run is over and its namespace is gone; the app waits for the user
Finish ==
  /\ pc = "done"
  /\ NoCall
  /\ pc' = "idle"
  /\ clicked' = "none"
  /\ shown' = {}
  /\ aborted' = FALSE
  /\ FreshLocals
  /\ UNCHANGED persistent

Next ==
  \/ Open \/ Tick \/ Click \/ EditQuery \/ ChooseCountry
  \/ Sidebar \/ Random \/ Session \/ Country \/ CountryWd \/ Weather
  \/ Search \/ SearchWd \/ Select
  \/ Summary \/ Page \/ Image \/ Wdid \/ Props \/ Graph
  \/ Map \/ GeoId \/ GeoCoord \/ Timeline \/ Panel \/ Finish

Spec == Init /\ [][Next]_vars

\* ---------------------------------------------------------------------
\* get_wikidata_props on every binding list up to MaxBindings
Labels == {None, "", "country", "inception"}
Statements == { [valueLabel |-> "Germany", value |-> "Q183"],
                [valueLabel |-> "Ulm", value |-> "Q3012"] }
Bindings ==
  { [propLabel |-> l, valueLabel |-> st.valueLabel, value |-> st.value] :
      l \in Labels, st \in Statements }
BindingLists == UNION { [1..n -> Bindings] : n \in 0..MaxBindings }

Quiet(w) ==
  /\ world = w
  /\ now = 0
  /\ params = NoParams
  /\ session_state = ("bookmarks" :> <<>>)
  /\ widgets = {}
  /\ query = ""
  /\ chosen_country = NoCountry
  /\ clicked = "none"
  /\ net = <<>>
  /\ aborted = FALSE

PropsWorld ==
  [name |-> "props_fn", titles |-> {"Ulm"}, vary |-> {}, fail |-> {}, user |-> {}]

InitProps ==
  /\ Quiet(PropsWorld)
  /\ cache = [fn \in Fns |-> [k \in KeysOf(fn) |-> <<>>]]
  /\ lastCall = [fn \in Fns |-> [k \in KeysOf(fn) |-> <<>>]]
  /\ pc = "props_call"
  /\ bindings \in BindingLists
  /\ props = <<>>
  /\ countries = <<>> /\ search = NoSearch /\ selected_title = None
  /\ thumb = Unbound /\ parse = PagePlain /\ img_url = NoUrl
  /\ wikidata_id = None /\ place_links = <<>> /\ idx = 0 /\ qid = None
  /\ attempted = <<>> /\ geoFailed = 0 /\ markers = 0 /\ shown = {}

\* lines 210-218 on the bindings the query returned
GetWikidataProps ==
  /\ pc = "props_call"
  /\ props' = BuildProps(bindings)
  /\ pc' = "props_returned"
  /\ UNCHANGED <<persistent, clicked, history, shown, aborted, countries, search,
                 selected_title, thumb, parse, img_url, wikidata_id, bindings,
                 place_links, idx, qid, attempted, geoFailed, markers>>

SpecProps == InitProps /\ [][GetWikidataProps]_vars

\* ---------------------------------------------------------------------
\* get_commons_image_url on every fragment up to MaxNodes elements
Sources == {<<>>, SrcRel, SrcAbs}
Elements ==
  { [tag |-> "table", infobox |-> b, parent |-> p, src |-> <<>>] :
      b \in BOOLEAN, p \in 0..MaxNodes }
  \cup { [tag |-> "img", infobox |-> FALSE, parent |-> p, src |-> u] :
           p \in 0..MaxNodes, u \in Sources }

\* an element is nested in a table that opened before it
WellFormed(nodes) ==
  \A i \in 1..Len(nodes) :
    nodes[i].parent = 0
    \/ (nodes[i].parent < i /\ nodes[nodes[i].parent].tag = "table")

Fragments ==
  { f \in UNION { [1..n -> Elements] : n \in 0..MaxNodes } : WellFormed(f) }

ImageWorld ==
  [name |-> "image_fn", titles |-> {"Ulm"}, vary |-> {}, fail |-> {}, user |-> {}]

InitImage ==
  /\ Quiet(ImageWorld)
  /\ cache = [fn \in Fns |-> [k \in KeysOf(fn) |-> <<>>]]
  /\ lastCall = [fn \in Fns |-> [k \in KeysOf(fn) |-> <<>>]]
  /\ pc = "image_call"
  /\ \E f \in Fragments : parse = [PagePlain EXCEPT !.nodes = f]
  /\ img_url = NoUrl
  /\ bindings = <<>> /\ props = <<>>
  /\ countries = <<>> /\ search = NoSearch /\ selected_title = None
  /\ thumb = Unbound /\ wikidata_id = None /\ place_links = <<>> /\ idx = 0
  /\ qid = None /\ attempted = <<>> /\ geoFailed = 0 /\ markers = 0 /\ shown = {}

\* lines 153-176: get_wikipedia_page returns the fragment, or it raises
GetCommonsImageUrl ==
  /\ pc = "image_call"
  /\ \E fetched \in BOOLEAN :
       /\ img_url' = ImageOf([ok |-> fetched, val |-> parse])
       /\ pc' = IF fetched THEN "image_returned" ELSE "image_failed"
  /\ UNCHANGED <<persistent, clicked, history, shown, aborted, countries, search,
                 selected_title, thumb, parse, wikidata_id, bindings, props,
                 place_links, idx, qid, attempted, geoFailed, markers>>

SpecImage == InitImage /\ [][GetCommonsImageUrl]_vars

\* ---------------------------------------------------------------------
\* the geocoding loop on long link lists: the run has reached line 431 for
\* an article without a Wikidata item
Cycle(base, n) == [i \in 1..n |-> base[((i - 1) % Len(base)) + 1]]

LinkLists ==
  { Cycle(base, n) :
      base \in { <<"Rio City", "Nile RIVER">>, <<"Physics", "Rio City", "Nile RIVER">> },
      n \in {0, 2, MaxLinks} }

GeoWorld ==
  [name |-> "geocoding", titles |-> {"Ulm"}, vary |-> {"q_coord"},
   fail |-> {"wdid", "q_coord"}, user |-> {}]

InitGeo ==
  /\ Quiet(GeoWorld)
  /\ pc = "map"
  /\ selected_title = "Ulm"
  /\ \E links \in LinkLists : parse = [PageRich EXCEPT !.links = links]
  /\ cache = [fn \in Fns |-> [k \in KeysOf(fn) |->
               IF k # <<"Ulm">> THEN <<>>
               ELSE CASE fn = "summary" -> <<[at |-> 0, val |-> Canon(fn, k)]>>
                      [] fn = "page" -> <<[at |-> 0, val |-> parse]>>
                      [] fn = "image" -> <<[at |-> 0, val |-> ExtractImage(parse.nodes)]>>
                      [] fn = "wdid" -> <<[at |-> 0, val |-> None]>>
                      [] OTHER -> <<>>]]
  /\ lastCall = [fn \in Fns |-> [k \in KeysOf(fn) |->
                  IF k = <<"Ulm">> /\ fn \in {"summary", "page", "wdid"}
                  THEN <<[at |-> 0, ok |-> TRUE]>> ELSE <<>>]]
  /\ thumb = None
  /\ img_url = ExtractImage(parse.nodes)
  /\ wikidata_id = None
  /\ shown = {"header", "summary", "infobox", "fallback_image"}
  /\ bindings = <<>> /\ props = <<>> /\ countries = <<Peru>> /\ search = NoSearch
  /\ place_links = <<>> /\ idx = 0 /\ qid = None
  /\ attempted = <<>> /\ geoFailed = 0 /\ markers = 0

NextGeo == Map \/ GeoId \/ GeoCoord \/ Timeline

SpecGeo == InitGeo /\ [][NextGeo]_vars

\* =====================================================================
\* Properties
\* =====================================================================
Range(seq) == {seq[i] : i \in 1..Len(seq)}
NoDuplicates(seq) == \A i, j \in 1..Len(seq) : seq[i] = seq[j] => i = j
IsPrefixOf(a, b) == Len(a) <= Len(b) /\ SubSeq(b, 1, Len(a)) = a
BookmarksOf(st) == IF "bookmarks" \in DOMAIN st THEN st["bookmarks"] ELSE <<>>

\* the last step asked the knowledge graph for the properties of the entity
\* and the query raised
PropsQueryFailed ==
  /\ net # <<>>
  /\ net[1].fn = "sparql" /\ net[1].key[1] = "props"
  /\ ~net[1].ok

\* C1: when the property query fails for an entity whose summary was shown,
\* the run goes on to the map, the timeline and the bookmark button and shows
\* no whole-page error.
C1_PropertyFailureDegrades ==
  (PropsQueryFailed /\ "summary" \in shown)
    => ("page_error" \notin shown /\ pc \in {"graph", "map"})

\* C2: a search with zero Wikipedia matches whose label lookup returns zero
\* bindings or raises leaves no title selected, lets no exception escape, and
\* renders no entity page unless a 'page' query parameter asks for one.
SearchFoundNothing ==
  /\ search.done
  /\ search.results = <<>>
  /\ search.wd \in {"raise", "empty"}

C2_NotFoundIsEmpty ==
  SearchFoundNothing =>
    /\ ~aborted
    /\ pc = "select" => selected_title = None
    /\ params.page = None =>
         /\ selected_title = None
         /\ "header" \notin shown
         /\ pc \in {"select", "panel", "done"}

C2_Witness ==
  /\ SearchFoundNothing
  /\ search.wd = "raise"
  /\ pc = "done"
  /\ params.page = None
  /\ "wikidata_failed" \in shown

\* C3 as claimed: two outbound calls of one adapter for the same arguments
\* are never less than the adapter's ttl apart, whatever the first one's
\* outcome was.
C3_AnyOutcomeIsCached ==
  (net # <<>> /\ ~net[1].hit /\ net[1].prev # <<>>)
    => net[1].at - net[1].prev[1].at >= TTL(net[1].fn)

\* C3 as amended: after an outbound call that returned, no further outbound
\* call for the same arguments is made before ttl has passed, and a lookup is
\* served from the memo table only in that window; a call that raised leaves
\* nothing behind.
C3_ReturnedValueIsCached ==
  net # <<>> =>
    /\ (~net[1].hit /\ net[1].prev # <<>> /\ net[1].prev[1].ok)
         => net[1].at - net[1].prev[1].at >= TTL(net[1].fn)
    /\ net[1].hit
         => /\ net[1].prev # <<>>
            /\ net[1].prev[1].ok
            /\ net[1].at - net[1].prev[1].at < TTL(net[1].fn)

\* a second enrichment, later but inside the window, is served from the table
C3_Witness ==
  /\ net # <<>>
  /\ net[1].fn = "summary"
  /\ net[1].hit
  /\ net[1].at > net[1].prev[1].at

\* C4: get_wikidata_props maps every property label to all its statements in
\* binding order, and a binding without a label adds nothing.
StatementsOf(label) ==
  LET rows == SelectSeq(bindings, LAMBDA b : b.propLabel = label)
  IN [i \in 1..Len(rows) |-> [label |-> rows[i].valueLabel, uri |-> rows[i].value]]

C4_AllStatementsInOrder ==
  pc = "props_returned" =>
    /\ DOMAIN props = {bindings[i].propLabel : i \in 1..Len(bindings)} \ {None, ""}
    /\ \A label \in DOMAIN props : props[label] = StatementsOf(label)

C4_Witness ==
  /\ pc = "props_returned"
  /\ \E label \in DOMAIN props : Len(props[label]) >= 2
  /\ \E i \in 1..Len(bindings) : bindings[i].propLabel = None

\* C5: the bookmark list is created empty, never holds a title twice, and
\* changes only by a bookmark action appending the current title when the
\* list does not hold it yet.
BookmarkStep == pc = "timeline" /\ clicked = "bookmark"

C5_BookmarksAppendOnce ==
  [][ LET old == BookmarksOf(session_state)
          new == BookmarksOf(session_state')
      IN /\ NoDuplicates(new)
         /\ "bookmarks" \notin DOMAIN session_state => new = <<>>
         /\ IsPrefixOf(old, new)
         /\ IF BookmarkStep /\ selected_title \notin Range(old)
            THEN new = Append(old, selected_title)
            ELSE new = old ]_vars

C5_Witness ==
  /\ pc = "done"
  /\ clicked = "bookmark"
  /\ "already_bookmarked" \in shown
  /\ Len(BookmarksOf(session_state)) = 2

\* C6: a run caused by 'Clear bookmarks' leaves the bookmark list empty.
C6_ClearEmptiesBookmarks ==
  (pc = "done" /\ clicked = "clear_bkm" /\ ~aborted)
    => BookmarksOf(session_state) = <<>>

\* C7: while an entity without a Wikidata item is rendered, no query goes to
\* the knowledge graph.
C7_NoGraphQueryWithoutId ==
  (pc \in {"geo_id", "geo_coord", "timeline"} /\ wikidata_id = None /\ net # <<>>)
    => ~(net[1].fn = "sparql" /\ ~net[1].hit)

\* C8: the places the loop attempts are the first min(30, n) place links in
\* document order, and a failure on one place does not keep the later ones
\* from being attempted.
PlaceCount(links) == Cardinality({i \in 1..Len(links) : IsPlaceLink(links[i])})

RECURSIVE FirstPlaces(_, _)
\* walking the document from its start, the place links met until `room`
\* of them have been taken
FirstPlaces(links, room) ==
  IF links = <<>> \/ room = 0 THEN <<>>
  ELSE IF IsPlaceLink(Head(links))
       THEN <<Head(links)>> \o FirstPlaces(Tail(links), room - 1)
       ELSE FirstPlaces(Tail(links), room)

C8_FirstThirtyInOrder ==
  /\ pc = "timeline" => attempted = FirstPlaces(parse.links, 30)
  /\ pc = "geo_id" => attempted = SubSeq(place_links, 1, idx - 1)
  /\ pc = "geo_coord" => attempted = SubSeq(place_links, 1, idx)

C8_Witness ==
  /\ pc = "timeline"
  /\ PlaceCount(parse.links) > 30
  /\ Len(attempted) = 30
  /\ geoFailed > 0 /\ geoFailed < 30
  /\ markers > 0

\* C9: get_commons_image_url returns the first image with a source inside the
\* first infobox table if there is one, else the first image with a source
\* anywhere, and null when there is none or the page fetch failed.
ImagesWithSource(nodes, root) ==
  {i \in 1..Len(nodes) :
     nodes[i].tag = "img" /\ nodes[i].src # <<>> /\ (root = 0 \/ Inside(nodes, i, root))}

ClaimedImage(nodes) ==
  LET box == FindInfobox(nodes)
      inBox == IF box = 0 THEN {} ELSE ImagesWithSource(nodes, box)
      any == ImagesWithSource(nodes, 0)
  IN IF inBox # {} THEN Absolute(nodes[Min(inBox)].src)
     ELSE IF any # {} THEN Absolute(nodes[Min(any)].src)
     ELSE NoUrl

C9_InfoboxImagePreferred ==
  /\ pc = "image_returned" => img_url = ClaimedImage(parse.nodes)
  /\ pc = "image_failed" => img_url = NoUrl

\* C10: the fallback image is on the page exactly when an image url was
\* extracted and the summary gave no thumbnail (also when there was no page
\* record), and never together with the thumbnail.
C10_FallbackIffNoThumbnail ==
  /\ ("fallback_image" \in shown) <=> (img_url # NoUrl /\ thumb \in {None, Unbound})
  /\ ~("thumb" \in shown /\ "fallback_image" \in shown)

\* the run has gone through the page selection of lines 365-372 and through
\* the stages after it
PastSelection ==
  \/ pc \in {"summary", "page", "image", "wdid", "props", "graph", "map",
             "geo_id", "geo_coord", "timeline", "panel"}
  \/ pc = "done" /\ ~aborted

\* a step takes the 'page' parameter away or changes it
PageParamReplaced == params.page # None /\ params'.page # params.page

\* C11: in every run whose query parameters contain 'page' the entity
\* rendered is the value of the parameter, whatever title the search of the
\* same run selected; and the parameter, once set, stays until choosing a
\* country replaces the query parameters (or 'Random Wikipedia article' sets
\* another page).
C11_PageParamOverridesSearch ==
  /\ [](PastSelection /\ params.page # None
          => "header" \in shown /\ selected_title = params.page)
  /\ [][ PageParamReplaced =>
           \/ /\ pc = "country" /\ chosen_country # NoCountry
              /\ params' = [page |-> None, country |-> chosen_country]
           \/ pc = "random" /\ clicked = "random" /\ params'.page # None ]_vars

\* the search of this run selected another title than the parameter names
C11_Witness ==
  /\ pc = "done" /\ ~aborted
  /\ params.page = "Ulm"
  /\ search.done /\ search.picked = "Rio City"
  /\ selected_title = "Ulm"
  /\ "header" \in shown

====
